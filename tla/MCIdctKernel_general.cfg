\* Every size Compute1dIDCT serves but 11 and 13: their cosines need roots
\* of unity of orders 24, 40, 56, 72, 48 and 120, which divide 5040.
CONSTANTS
  P = 45361
  Root = 37550
  Order = 5040
  Comp = {c1}
  Sizes = {3, 5, 6, 7, 9, 10, 12, 14, 15}
  Blocks <- MCBlocks
  Tables <- MCTables
  ScratchSize = 320
  OutStride = 17
  MaxCalls = 2
SPECIFICATION Spec
INVARIANTS OutputCorrect WritesInRegion NoScratchOverflow NoStaleRead NoAbort DispatchConsistent
