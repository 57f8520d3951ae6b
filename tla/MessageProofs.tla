---------------------------- MODULE MessageProofs ----------------------------
(***************************************************************************)
(* Proofs about the parts of a message: what comes out of a header that    *)
(* MsgHeader put together, and which columns of a set of FieldsOpt reach   *)
(* the other side.                                                         *)
(***************************************************************************)
EXTENDS MsgHeader, FieldsOpt, TLAPS

-----------------------------------------------------------------------------
(* Headers.                                                                *)

\* A char is what its bits say, and takes the low eight bits of an integer.
LEMMA CharBits == ASSUME NEW n \in Int
                  PROVE  Char(n) \in char /\ Bits(Char(n)) = n % 256
<1> DEFINE m == n % 256
<1>1. m \in Int /\ 0 <= m /\ m < 256
  BY SMT
<1>2. Char(n) = IF m < 128 THEN m ELSE m - 256
  BY SMT DEF Char
<1> HIDE DEF m
<1>3. Bits(Char(n)) = m
  BY <1>1, <1>2, SMT DEF Bits
<1>4. Char(n) \in char
  BY <1>1, <1>2, SMT DEF char
<1> QED BY <1>3, <1>4 DEF m

\* The remainder modulo 2^24 is taken char by char.
LEMMA Digits ==
  ASSUME NEW n \in Nat
  PROVE  ((n \div 65536) % 256) * 65536 + ((n \div 256) % 256) * 256 + (n % 256)
           = n % 16777216
BY SMT

\* Three chars carry the low 24 bits of what was stored.
LEMMA ThreeCarry ==
  ASSUME NEW n \in Nat
  PROVE  Three(Char(n \div 65536), Char(n \div 256), Char(n)) = n % 16777216
<1> DEFINE hi == n \div 65536  mid == n \div 256
<1>1. hi \in Int /\ mid \in Int /\ n \in Int
  BY SMT
<1>2. (hi % 256) * 65536 + (mid % 256) * 256 + (n % 256) = n % 16777216
  BY Digits, SMT
<1> HIDE DEF hi, mid
<1>3. Bits(Char(hi)) = hi % 256 /\ Bits(Char(mid)) = mid % 256 /\ Bits(Char(n)) = n % 256
  BY <1>1, CharBits, Zenon
<1>4. Three(Char(hi), Char(mid), Char(n)) = n % 16777216
  BY <1>2, <1>3, SMT DEF Three
<1> QED BY <1>4, SMT DEF hi, mid

\* The length of a message survives: Read cuts the stream where the sender
\* meant it to.
THEOREM LengthArrives ==
  ASSUME NEW len \in uint32, NEW cmd \in Nat, NEW id \in uint32,
         NEW errCode \in char, NEW flag \in Nat
  PROVE  /\ GORM_GetMsgLen(GORM_SetReqHeader(len, cmd, id, flag)) = len
         /\ GORM_GetMsgLen(GORM_SetRspHeader(len, cmd, id, errCode, flag)) = len
<1> DEFINE top == len \div 16777216
<1>1. len \in Nat /\ top \in Int /\ 0 <= top /\ top < 256
  BY SMT DEF uint32
<1>2. Bits(Char(top)) = top
  BY <1>1, CharBits, SMT
<1>3. len = top * 16777216 + (len % 16777216)
  BY <1>1, SMT
<1>4. GORM_GetMsgLen(GORM_SetReqHeader(len, cmd, id, flag))
        = Bits(Char(top)) * 16777216
            + Three(Char(len \div 65536), Char(len \div 256), Char(len))
  BY SMT DEF GORM_GetMsgLen, GORM_SetReqHeader, GORM_SetMsgLen
<1>5. GORM_GetMsgLen(GORM_SetRspHeader(len, cmd, id, errCode, flag))
        = Bits(Char(top)) * 16777216
            + Three(Char(len \div 65536), Char(len \div 256), Char(len))
  BY SMT DEF GORM_GetMsgLen, GORM_SetRspHeader, GORM_SetMsgLen
<1> QED BY <1>1, <1>2, <1>3, <1>4, <1>5, ThreeCarry, SMT

\* A request carries the id it was given modulo 2^24, and so does a response:
\* this is WireId of ClientEvent, whose WireIds is 2^24 in the code.
THEOREM IdArrives ==
  ASSUME NEW len \in uint32, NEW cmd \in Nat, NEW id \in uint32,
         NEW errCode \in char, NEW flag \in Nat
  PROVE  /\ GORM_GetReqHeader(GORM_SetReqHeader(len, cmd, id, flag)).reqId = id % 16777216
         /\ GORM_GetRspHeader(GORM_SetRspHeader(len, cmd, id, errCode, flag)).reqId
              = id % 16777216
<1>1. id \in Nat
  BY SMT DEF uint32
<1>2. GORM_GetReqHeader(GORM_SetReqHeader(len, cmd, id, flag)).reqId
        = Three(Char(id \div 65536), Char(id \div 256), Char(id))
  BY SMT DEF GORM_GetReqHeader, GORM_SetReqHeader, GORM_SetMsgLen
<1>3. GORM_GetRspHeader(GORM_SetRspHeader(len, cmd, id, errCode, flag)).reqId
        = Three(Char(id \div 65536), Char(id \div 256), Char(id))
  BY SMT DEF GORM_GetRspHeader, GORM_SetRspHeader, GORM_SetMsgLen
<1> QED BY <1>1, <1>2, <1>3, ThreeCarry, SMT

\* Filling in the id of a packed request leaves the length, the command and
\* the flag as they were packed.
THEOREM SeqIdOnly ==
  ASSUME NEW len \in uint32, NEW cmd \in Nat, NEW id \in uint32,
         NEW newId \in uint32, NEW flag \in Nat
  PROVE  LET old == GORM_SetReqHeader(len, cmd, id, flag)
             new == GORM_SetReqHeaderSeqId(old, newId)
         IN  /\ GORM_GetMsgLen(new) = len
             /\ GORM_GetReqHeader(new).reqCmd = GORM_GetReqHeader(old).reqCmd
             /\ GORM_GetReqHeader(new).flag = GORM_GetReqHeader(old).flag
             /\ GORM_GetReqHeader(new).reqId = newId % 16777216
<1> DEFINE old == GORM_SetReqHeader(len, cmd, id, flag)
           new == GORM_SetReqHeaderSeqId(old, newId)
<1>0. DOMAIN old = 1 .. 9
  BY SMT DEF GORM_SetReqHeader, GORM_SetMsgLen
<1> HIDE DEF old
<1>1. /\ new[1] = old[1] /\ new[2] = old[2] /\ new[3] = old[3] /\ new[4] = old[4]
      /\ new[5] = old[5] /\ new[9] = old[9]
      /\ new[6] = Char(newId \div 65536)
      /\ new[7] = Char(newId \div 256)
      /\ new[8] = Char(newId)
  BY <1>0, SMT DEF GORM_SetReqHeaderSeqId
<1>2. newId \in Nat
  BY SMT DEF uint32
<1>3. GORM_GetMsgLen(old) = len
  BY LengthArrives, SMT DEF char, old
<1> HIDE DEF new
<1>4. GORM_GetMsgLen(new) = len
  BY <1>1, <1>3, SMT DEF GORM_GetMsgLen
<1>5. Three(new[6], new[7], new[8]) = newId % 16777216
  BY <1>1, <1>2, ThreeCarry, SMT
<1>6. /\ GORM_GetReqHeader(new).reqCmd = GORM_GetReqHeader(old).reqCmd
      /\ GORM_GetReqHeader(new).flag = GORM_GetReqHeader(old).flag
      /\ GORM_GetReqHeader(new).reqId = newId % 16777216
  BY <1>1, <1>5, SMT DEF GORM_GetReqHeader
<1> QED BY <1>4, <1>6, SMT DEF old, new

\* The command of a response is one signed char, so the comparison with 1001
\* in OneRspFinishRead never holds and no server can announce an upgrade;
\* this is why ClientEvent and EventLoop have no action for it.
THEOREM NoUpgradeCommand ==
  ASSUME NEW msg \in Seq(char), Len(msg) >= 10
  PROVE  GORM_GetRspHeader(msg).reqCmd # 1001
<1>1. msg[5] \in Int /\ msg[5] < 128
  BY SMT DEF char
<1> QED BY <1>1, SMT DEF GORM_GetRspHeader

\* An error code that fits a char reaches HandShakeResult and the request
\* unchanged.
THEOREM ErrorCodeArrives ==
  ASSUME NEW len \in uint32, NEW cmd \in Nat, NEW id \in uint32,
         NEW errCode \in char, NEW flag \in Nat
  PROVE  GORM_GetRspHeader(GORM_SetRspHeader(len, cmd, id, errCode, flag)).errCode = errCode
<1>1. Char(errCode) = errCode
  BY SMT DEF Char, char
<1> QED BY <1>1, SMT DEF GORM_GetRspHeader, GORM_SetRspHeader, GORM_SetMsgLen

-----------------------------------------------------------------------------
(* Sets of columns.                                                        *)

\* Every column of the collection is in a char that is counted.
Whole(opt) == opt \in Opts /\ \A f \in opt.bits : f \div 8 < opt.used

\* What is read from the part of the collection that is counted.
Sent(opt) == GetFields(opt.bits, opt.used)

\* A column is in the char that its number divided by eight names.
LEMMA CharOf ==
  ASSUME NEW f \in Nat, NEW i \in Nat
  PROVE  (f >= 8 * i /\ f <= 8 * i + 7) <=> i = f \div 8
BY SMT

\* FieldInMode, one column at a time, and GetFields, all at once, read the
\* same columns out of the same chars.
THEOREM SameFields ==
  ASSUME NEW bits \in SUBSET Columns, NEW len \in Int
  PROVE  GetFields(bits, len) = {f \in Columns : FieldInMode(bits, len, f)}
<1>1. ASSUME NEW f \in GetFields(bits, len)
      PROVE  f \in Columns /\ FieldInMode(bits, len, f)
  <2>1. PICK i \in Chars : i < len /\ f \in bits /\ f >= 8 * i /\ f <= 8 * i + 7
    BY <1>1, Zenon DEF GetFields
  <2>2. f \in Nat /\ f < 1024 /\ i \in Nat
    BY <2>1, SMT DEF Columns, Chars
  <2>3. f \div 8 < len
    BY <2>1, <2>2, CharOf, SMT
  <2> QED BY <2>1, <2>2, <2>3, SMT DEF FieldInMode, Columns
<1>2. ASSUME NEW f \in Columns, FieldInMode(bits, len, f)
      PROVE  f \in GetFields(bits, len)
  <2> DEFINE i == f \div 8
  <2>1. f \in Nat /\ i \in Chars /\ i \in Nat
    BY SMT DEF Columns, Chars
  <2>2. i < len /\ f \in bits
    BY <1>2, SMT DEF FieldInMode
  <2>3. f >= 8 * i /\ f <= 8 * i + 7
    BY <2>1, CharOf, SMT
  <2> HIDE DEF i
  <2>4. f \in {g \in bits : g >= 8 * i /\ g <= 8 * i + 7} /\ i \in {j \in Chars : j < len}
    BY <2>1, <2>2, <2>3, Zenon
  <2> QED BY <2>4, SMT DEF GetFields
<1> QED BY <1>1, <1>2, Zenon

\* A collection that is whole is read as it was filled: no column is lost.
THEOREM WholeIsSent ==
  ASSUME NEW opt, Whole(opt)
  PROVE  Sent(opt) = opt.bits
<1>1. opt.bits \in SUBSET Columns /\ opt.used \in Int
  BY SMT DEF Whole, Opts
<1>2. Sent(opt) = {f \in Columns : FieldInMode(opt.bits, opt.used, f)}
  BY <1>1, SameFields, Zenon DEF Sent
<1>3. \A f \in opt.bits : f \in Columns /\ FieldInMode(opt.bits, opt.used, f)
  BY <1>1, SMT DEF Whole, FieldInMode, Columns
<1>4. \A f \in Columns : FieldInMode(opt.bits, opt.used, f) => f \in opt.bits
  BY Zenon DEF FieldInMode
<1> QED BY <1>2, <1>3, <1>4, Zenon

\* The empty collection is whole; AddField keeps a collection whole, and so
\* does DelField of a column that is in it: a request that uses only these
\* sends the columns it was asked to.
THEOREM WholeKept ==
  ASSUME NEW opt, Whole(opt), NEW f \in Nat
  PROVE  /\ Whole(Reset) /\ Whole(AddField(opt, f))
         /\ f \in opt.bits => Whole(DelField(opt, f))
<1>1. opt \in Opts /\ opt.bits \in SUBSET Columns /\ opt.used \in Int
  BY SMT DEF Whole, Opts
<1>2. Whole(Reset)
  BY SMT DEF Whole, Reset, Opts
<1>3. Whole(AddField(opt, f))
  BY <1>1, SMT DEF Whole, AddField, Opts, Columns
<1>4. f \in opt.bits => Whole(DelField(opt, f))
  BY <1>1, SMT DEF Whole, DelField, Opts, Columns
<1> QED BY <1>2, <1>3, <1>4

\* DelField flips the bit: a column that was not in the collection is in it
\* afterwards, and deleting it again takes it out.
THEOREM DelFlips ==
  ASSUME NEW opt \in Opts, NEW f \in Columns
  PROVE  /\ f \in DelField(opt, f).bits <=> f \notin opt.bits
         /\ DelField(DelField(opt, f), f) = opt
<1>1. opt.bits \in SUBSET Columns /\ opt = [bits |-> opt.bits, used |-> opt.used]
  BY SMT DEF Opts
<1>2. ~(f >= 1024)
  BY SMT DEF Columns
<1>3. DelField(opt, f).bits = IF f \in opt.bits THEN opt.bits \ {f} ELSE opt.bits \cup {f}
  BY <1>2, Zenon DEF DelField
<1>4. DelField(opt, f).used = opt.used
  BY <1>2, Zenon DEF DelField
<1> DEFINE once == DelField(opt, f)
<1> HIDE DEF once
<1>5. DelField(once, f)
        = [bits |-> IF f \in once.bits THEN once.bits \ {f} ELSE once.bits \cup {f},
           used |-> once.used]
  BY <1>2, Zenon DEF DelField
<1>6. (IF f \in once.bits THEN once.bits \ {f} ELSE once.bits \cup {f}) = opt.bits
  BY <1>3, SMT DEF once
<1>7. DelField(once, f) = opt
  BY <1>1, <1>4, <1>5, <1>6, SMT DEF once
<1> QED BY <1>3, <1>7, Zenon DEF once

\* AddField(iIdx, iMode) counts one char too few: in a new collection the
\* columns it adds are not among those that are read.
THEOREM ModeFallsShort ==
  ASSUME NEW idx \in Nat, idx < 127, NEW mode \in SUBSET {k \in Nat : k < 8}
  PROVE  /\ AddMode(Reset, idx, mode).bits = {8 * idx + k : k \in mode}
         /\ Sent(AddMode(Reset, idx, mode)) = {}
<1> DEFINE opt == AddMode(Reset, idx, mode)
<1>1. opt.bits = {8 * idx + k : k \in mode} /\ opt.used = idx
  BY SMT DEF AddMode, Reset
<1> HIDE DEF opt
<1>2. ASSUME NEW f \in opt.bits PROVE f \in Columns /\ f \div 8 = idx
  <2>1. PICK k \in mode : f = 8 * idx + k
    BY <1>1, Zenon
  <2>2. k \in {j \in Nat : j < 8}
    BY <2>1, Zenon
  <2>3. f \in Nat /\ f >= 8 * idx /\ f <= 8 * idx + 7 /\ f < 1024
    BY <2>1, <2>2, SMT
  <2> QED BY <2>3, CharOf, SMT DEF Columns
<1>3. opt.bits \in SUBSET Columns /\ opt.used \in Int
  BY <1>1, <1>2, SMT
<1>4. Sent(opt) = {f \in Columns : FieldInMode(opt.bits, opt.used, f)}
  BY <1>3, SameFields, Zenon DEF Sent
<1>5. \A f \in Columns : ~FieldInMode(opt.bits, opt.used, f)
  BY <1>1, <1>2, SMT DEF FieldInMode, Columns
<1>6. Sent(opt) = {}
  BY <1>4, <1>5, Zenon
<1> QED BY <1>1, <1>6, Zenon DEF opt

\* A copy does not know how many chars are in use: one more column makes the
\* count reach that column, and those in later chars are not read.
THEOREM CopyCuts ==
  ASSUME NEW opt \in Opts, NEW f \in Columns, NEW g \in opt.bits,
         f \div 8 < g \div 8
  PROVE  /\ g \in AddField(Copy(opt), f).bits
         /\ g \notin Sent(AddField(Copy(opt), f))
<1> DEFINE new == AddField(Copy(opt), f)
<1>1. opt.bits \in SUBSET Columns
  BY SMT DEF Opts
<1>2. new.bits = opt.bits \cup {f} /\ new.used = f \div 8 + 1
  BY SMT DEF AddField, Copy, Columns
<1> HIDE DEF new
<1>3. new.bits \in SUBSET Columns /\ new.used \in Int /\ g \in Nat
  BY <1>1, <1>2, SMT DEF Columns
<1>4. ~FieldInMode(new.bits, new.used, g)
  BY <1>2, <1>3, SMT DEF FieldInMode, Columns
<1>5. g \notin Sent(new)
  BY <1>3, <1>4, SameFields, Zenon DEF Sent
<1> QED BY <1>2, <1>5, Zenon DEF new

\* Assignment stops at the first char without a column: when that is the
\* first char, the target is empty whatever the source holds.
THEOREM AssignStops ==
  ASSUME NEW opt \in Opts, NEW other \in Opts,
         \A g \in other.bits : g >= 8
  PROVE  Assign(opt, other).bits = {}
<1>1. other.bits \in SUBSET Columns
  BY SMT DEF Opts
<1>2. ASSUME NEW f \in Assign(opt, other).bits PROVE FALSE
  <2>1. f \in other.bits /\ \A i \in Chars :
          i < f \div 8 => \E g \in other.bits : g \div 8 = i
    BY <1>2, SMT DEF Assign
  <2>2. f \in Nat /\ f >= 8 /\ 0 \in Chars
    BY <1>1, <2>1, SMT DEF Columns, Chars
  <2>3. 0 < f \div 8
    BY <2>2, SMT
  <2>4. PICK g \in other.bits : g \div 8 = 0
    BY <2>1, <2>2, <2>3, SMT
  <2>5. g \in Nat /\ g >= 8
    BY <1>1, SMT DEF Columns
  <2> QED BY <2>4, <2>5, SMT
<1> QED BY <1>2, Zenon
=============================================================================
