SPECIFICATION Spec
CONSTANTS
  Requests = {r1, r2}
  Models = {"tts", "omni"}
  ChunkSize = 2
  LeftContext = 3
  MaxFrames = 5
INVARIANTS FramesOnce HeardInOrder
PROPERTIES StreamsAreHeard
CHECK_DEADLOCK FALSE
