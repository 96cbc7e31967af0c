SPECIFICATION FairSpec
CONSTANTS
  JobNames <- MCJobNames
  JobSeq <- ChainSeq
  RunBefore <- ChainBefore
  InitTriggers <- TriggerOnB
  MaxFailures = 0
  MaxEdits = 1
  MayDelete = TRUE
PROPERTIES
  RunCompletes
CHECK_DEADLOCK FALSE
