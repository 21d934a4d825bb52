CONSTANTS
  e1 = e1
  b1 = b1
  Objs <- MCObjs
  CSIn <- MCCSIn
  WPIn <- MCWPIn
  PRIn <- MCPRIn
  TFIn <- MCTFIn
  RIIn <- MCRIIn
  GammaIn <- MCGammaIn
  IccIn <- MCIccIn
  MaxInits = 2
  ReinitAfterSuccess = TRUE
INIT Init
NEXT Next
INVARIANT CmsHandlesBalanced
