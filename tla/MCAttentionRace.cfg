CONSTANTS
  Threads = {t1, t2, t3}
  Keys = {k1, k2}
  MaxObjects = 3
  MaxClears = 1
  MaxBlockThreads = 4
  MaxShared = 10
  MaxGridX = 16
  MaxGridYZ = 2
  Sizes = {0, 1, 2, 3, 8}
  Lens = {0, 1, 3, 9}
  Rows = {0, 1, 3}
  Cols = {0, 1, 2, 9}
  BlockSizes = {1, 2, 3, 4}
  Widths = {1, 3, 5}
  AttnThreads = {2}
  KvRows = {2, 3}
  QueryRows = 2
  AttnHeads = 2
  HeadDim = 1
  ValueDim = 2
  DecodeThreads = {2, 3}
  DecodeRows = {1, 2, 3}
  HeadShapes <- MCHeadShapes
  DecodeDim = 2
  TileSide = 2
  Decoder <- MCDecoder
  GemmShapes <- MCGemmShapes
  Batches = 2
SPECIFICATION PipeSpec
SYMMETRY Symm
CHECK_DEADLOCK FALSE
INVARIANT OutputIsAttention
