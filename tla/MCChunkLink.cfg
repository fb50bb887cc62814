SPECIFICATION LinkSpec
CONSTANTS
  r1 = r1
  r2 = r2
  NoReq = NoReq
  Reqs <- MCReqs
  Generation = FALSE
  MaxChunks = 3
  MaxLost = 1
CHECK_DEADLOCK FALSE
INVARIANTS
  StreamIntact
  FinishedIsDrained
PROPERTY
  ImplementsChannel
