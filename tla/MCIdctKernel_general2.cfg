\* Sizes 11 and 13: their cosines need roots of unity of orders 88 and 104,
\* which divide 1144.  The scratch buffer holds exactly the 64 + 13 * 13
\* floats that size 13 addresses (block0, then block1 at stride 13).
CONSTANTS
  P = 44617
  Root = 6729
  Order = 1144
  Comp = {c1}
  Sizes = {11, 13}
  Blocks <- MCBlocks
  Tables <- MCTables
  ScratchSize = 233
  OutStride = 17
  MaxCalls = 2
SPECIFICATION Spec
INVARIANTS OutputCorrect WritesInRegion NoScratchOverflow NoStaleRead NoAbort DispatchConsistent FreshInv
