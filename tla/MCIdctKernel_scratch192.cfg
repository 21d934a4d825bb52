\* A scratch buffer of the 192 floats the spec declares sufficient, with the
\* largest output size.
CONSTANTS
  P = 46337
  Root = 8901
  Order = 64
  Comp = {c1}
  Sizes = {16}
  Blocks <- MCBlocks
  Tables <- MCTables
  ScratchSize = 192
  OutStride = 17
  MaxCalls = 1
SPECIFICATION Spec
INVARIANT NoScratchOverflow
