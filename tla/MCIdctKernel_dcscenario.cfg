\* The spec's DC-only scenario on the 8x8 path.
CONSTANTS
  P = 46337
  Root = 8901
  Order = 64
  Comp = {c1}
  Sizes = {8}
  Blocks <- MCBlocksDC
  Tables <- MCTablesDC
  ScratchSize = 320
  OutStride = 17
  MaxCalls = 1
SPECIFICATION Spec
INVARIANT SpecDCScenario
