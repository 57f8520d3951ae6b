------------------------------ MODULE MsgHeader ------------------------------
(***************************************************************************)
(* The headers of requests and responses (src/include/gorm_msg_helper.h).  *)
(* A message is a sequence of chars, which are signed: a char that becomes *)
(* an int keeps its sign, and one that is masked after the conversion to   *)
(* uint32 gives its eight bits.  There is no state; MessageProofs says     *)
(* what comes out of a header that was put together here.                  *)
(***************************************************************************)
EXTENDS Integers, Sequences

uint32 == {n \in Nat : n < 4294967296}
char == {c \in Int : -128 <= c /\ c < 128}

\* An integer stored into a char, and the eight bits of a char.
Char(n) == IF n % 256 < 128 THEN n % 256 ELSE (n % 256) - 256
Bits(c) == c % 256

\* uint32(c1)<<16 & 0xFF0000 | uint32(c2)<<8 & 0xFF00 | uint32(c3) & 0xFF
Three(c1, c2, c3) == Bits(c1) * 65536 + Bits(c2) * 256 + Bits(c3)

GORM_SetMsgLen(len) ==
  <<Char(len \div 16777216), Char(len \div 65536), Char(len \div 256), Char(len)>>

GORM_GetMsgLen(msg) == Bits(msg[1]) * 16777216 + Three(msg[2], msg[3], msg[4])

\* length | command | id in three chars | flag
GORM_SetReqHeader(len, cmd, id, flag) ==
  GORM_SetMsgLen(len) \o
    <<Char(cmd), Char(id \div 65536), Char(id \div 256), Char(id), Char(flag)>>

\* length | command | id in three chars | error code | flag
GORM_SetRspHeader(len, cmd, id, errCode, flag) ==
  GORM_SetMsgLen(len) \o
    <<Char(cmd), Char(id \div 65536), Char(id \div 256), Char(id),
      Char(errCode), Char(flag)>>

\* The id of a request that is packed already is filled in later.
GORM_SetReqHeaderSeqId(msg, id) ==
  [msg EXCEPT ![6] = Char(id \div 65536), ![7] = Char(id \div 256), ![8] = Char(id)]

\* Callers pass the address behind the length; the command keeps its sign.
GORM_GetReqHeader(msg) ==
  [reqCmd |-> msg[5], reqId |-> Three(msg[6], msg[7], msg[8]), flag |-> Bits(msg[9])]

GORM_GetRspHeader(msg) ==
  [reqCmd |-> msg[5], reqId |-> Three(msg[6], msg[7], msg[8]),
   errCode |-> msg[9], flag |-> Bits(msg[10])]
=============================================================================
