SPECIFICATION Spec
CONSTANTS
  r1 = r1
  r2 = r2
  b1 = b1
  b2 = b2
  Requests <- MCRequests
  Blocks <- MCBlocks
  BlockSize = 2
  PromptLen = 2
  MaxOutput = 2
  Criteria = {"none", "prefill_finished", "special_token"}
  MayAbort = TRUE
  MaxPreempts = 1
  MaxWrapErrors = 1
CHECK_DEADLOCK FALSE
INVARIANTS
  SentIsOwn
  HeldUntilRead
  TransferredOnce
PROPERTY
  PendingIsHandedOver
