------------------------------ MODULE FieldsOpt ------------------------------
(***************************************************************************)
(* GORM_FieldsOpt (src/include/gorm_utils.h): the set of columns that a    *)
(* request reads or writes.  Column f is bit f % 8 of char f \div 8 of 128 *)
(* chars; here the chars are the set of the columns whose bit is 1.  used  *)
(* is iUsedIdx, the number of chars in use: the part of the collection     *)
(* that GetFields and FieldInMode are given on the other side.  The        *)
(* vector that GetFields returns is ascending and is kept as a set.        *)
(***************************************************************************)
EXTENDS Integers

Chars == {i \in Nat : i < 128}
Columns == {f \in Nat : f < 1024}
Opts == [bits : SUBSET Columns, used : Int]

\* The default constructor and Reset; only these give iUsedIdx a 0.
Reset == [bits |-> {}, used |-> 0]

\* The constructor from a string of len chars takes at most 128 of them, and
\* the copy constructor all of them; neither sets iUsedIdx.
FromString(bits, len) ==
  [bits |-> {f \in bits : f < 1024 /\ f \div 8 < len}, used |-> -1]
Copy(other) == [bits |-> other.bits, used |-> -1]

\* Assignment copies with strncpy, which stops at the first char without a
\* column and clears the rest; iUsedIdx stays that of the target.
Assign(opt, other) ==
  [bits |-> {f \in other.bits : \A i \in Chars :
               i < f \div 8 => \E g \in other.bits : g \div 8 = i},
   used |-> opt.used]

\* AddField(iField), and the macro GORM_ADD_FIELD for a legal column.
AddField(opt, f) ==
  IF f >= 1024 THEN opt
  ELSE [bits |-> opt.bits \cup {f},
        used |-> IF opt.used <= f \div 8 THEN f \div 8 + 1 ELSE opt.used]

\* AddField(iIdx, iMode): the columns of mode, a set of bits, in char idx.
AddMode(opt, idx, mode) ==
  IF idx >= 127 THEN opt
  ELSE [bits |-> opt.bits \cup {8 * idx + k : k \in mode},
        used |-> IF opt.used < idx THEN idx ELSE opt.used]

\* DelField flips the bit and leaves iUsedIdx.
DelField(opt, f) ==
  IF f >= 1024 THEN opt
  ELSE [bits |-> IF f \in opt.bits THEN opt.bits \ {f} ELSE opt.bits \cup {f},
        used |-> opt.used]

FieldInMode(bits, len, f) == f < 1024 /\ f \div 8 < len /\ f \in bits

\* The columns of each of the first len chars, at most 128.
GetFields(bits, len) ==
  UNION {{f \in bits : f >= 8 * i /\ f <= 8 * i + 7} : i \in {j \in Chars : j < len}}
=============================================================================
