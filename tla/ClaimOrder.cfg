SPECIFICATION Spec
CONSTANTS
  JobNames <- MCJobNames
  JobSeq <- ChainSeq
  RunBefore <- ChainBefore
  InitTriggers <- Untriggered
  MaxFailures = 0
  MaxEdits = 0
  MayDelete = FALSE
INVARIANT StartsAfterRunBefore
CHECK_DEADLOCK FALSE
