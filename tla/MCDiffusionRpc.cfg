SPECIFICATION Spec
CONSTANTS
  NumGpus = 2
  Ranks <- MCRanks
  MaxCalls = 3
  MaxErrors = 2
  MaxTimeouts = 1
  MayClose = TRUE
CHECK_DEADLOCK FALSE
INVARIANTS
  TypeOK
  OwnReplies
  RanksAgree
PROPERTY
  CallsAndWorkersEnd
