\* Sizes served by the factorised 8-point transform (8, and 1, 2, 4 by box
\* averaging) and the largest general size.  GF(46337) holds a 64th root of unity.
CONSTANTS
  P = 46337
  Root = 8901
  Order = 64
  Comp = {c1}
  Sizes = {1, 2, 4, 8, 16}
  Blocks <- MCBlocks
  Tables <- MCTables
  ScratchSize = 320
  OutStride = 17
  MaxCalls = 2
SPECIFICATION Spec
INVARIANTS OutputCorrect WritesInRegion NoScratchOverflow NoStaleRead NoAbort DispatchConsistent
