\* Two users, classes of 2 and 4 and a size above them; one free buffer of
\* each class and one descriptor are kept, so that each limit is reached.
CONSTANTS
  Data = {d1, d2, d3, d4, d5}
  Holder = {h1, h2}
  NoData = NoData
  POOL_DATA_TOTAL_TYPE = 2
  m_aSize <- Sizes
  ListMax = 1
  MAX_FREE_META_DATA = 1
  Lens = {2, 3, 4, 5}
SYMMETRY Symmetry
SPECIFICATION Spec
INVARIANTS
  TypeOK
  OneOwner
  NothingLost
  ListedWhole
  Fits
