SPECIFICATION Spec
CONSTANTS
  r1 = r1
  r2 = r2
  b1 = b1
  b2 = b2
  Requests <- MCRequests
  Blocks <- MCBlocks
  BlockSize = 2
  PromptLen = 2
  MaxOutput = 2
  Criteria = {"prefill_finished"}
  MayAbort = FALSE
  MaxPreempts = 0
  MaxWrapErrors = 0
CHECK_DEADLOCK FALSE
PROPERTY
  HeldBlocksAreFreed
