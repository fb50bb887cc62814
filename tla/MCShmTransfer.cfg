SPECIFICATION ShmSpec
CONSTANTS
  KVRequests = {r1, r2}
  NoRequest = NoRequest
  MaxRetries = 3
  MaxTries = 2
INVARIANTS ReceivedIsWhole KeysAreClean
PROPERTY ReceivesEnd
CHECK_DEADLOCK FALSE
