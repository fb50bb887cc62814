SPECIFICATION Spec
CONSTANTS
  NumRequests = 3
  NumStages = 3
  FinalOutput = {0, 2}
  FinalStage <- MCFinalStage
  DiffusionStages = {2}
  MaxBatchSize = 2
  MaxFaults = 1
  MaxProfiles = 1
INVARIANTS TypeOK Accounted OwnOutputs PayloadPerTask
PROPERTY GenerationEnds
CHECK_DEADLOCK FALSE
