SPECIFICATION Spec
CONSTANTS
  NumRequests = 2
  NumStages = 2
  FinalOutput = {0, 1}
  FinalStage <- MCFinalStage
  MaxOutputs <- MCMaxOutputs
  MaxDisruptions = 1
  MaxPauses = 2
INVARIANTS OutputsInOrder StageAgrees OwnInputs AbortReachesWork
PROPERTIES PausedAdmitsNone RequestsEnd
CHECK_DEADLOCK FALSE
