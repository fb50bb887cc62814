SPECIFICATION Spec
CONSTANTS
  r1 = r1
  r2 = r2
  NoReq = NoReq
  Reqs <- MCOneReq
  Generation = TRUE
  MaxChunks = 2
  MaxLost = 0
  MaxNumSeqs = 1
  TokenBudget = 2
  ChunkTokens = 2
  MaxAborts = 0
CHECK_DEADLOCK FALSE
PROPERTY
  FinishedRequestLeaves
