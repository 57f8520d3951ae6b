\* A ring whose size does not divide the index range, as the send queue's does
\* not (2^64 % 10240 = 4096; here 32 % 5 = 2).
CONSTANTS
  Item = {a, b}
  TOTALNUM = 5
  IdxMod = 32
  MaxIn = 1
SPECIFICATION Spec
PROPERTY
  DequeSpec
