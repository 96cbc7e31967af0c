SPECIFICATION Spec
CONSTANTS
  JobNames <- MCJobNames
  JobSeq <- ChainSeq
  RunBefore <- ChainBefore
  InitTriggers <- TriggerOnB
  MaxFailures = 1
  MaxEdits = 1
  MayDelete = FALSE
INVARIANTS
  TypeOK QuietMeansSettled TriggerHolds AnnotationIsTrue EndAfterAllStarted
PROPERTIES
   TriggerOneWay
CHECK_DEADLOCK FALSE
