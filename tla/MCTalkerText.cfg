SPECIFICATION Spec
CONSTANTS
  PromptLen = 3
  MaxOutput = 4
  MaxSpoken = 7
  MaxSplits = 2
  MaxPreemptions = 1
INVARIANTS EmbeddingsIntact SpeaksInOrder
PROPERTY SpeechEnds
CHECK_DEADLOCK FALSE
