\* A ring whose size divides the index range, as the response list's does
\* (131072 divides 2^64): both indices wrap many times.
CONSTANTS
  Item = {a, b}
  TOTALNUM = 4
  IdxMod = 8
  MaxIn = 5
SPECIFICATION Spec
INVARIANT
  IndicesAgree
PROPERTY
  DequeSpec
