SPECIFICATION FairSpec
CONSTANTS
  Specs <- MCSpecs
  Scheduled <- MCScheduled
  Pointers <- MCScheduled
  Addresses <- MCAddresses
  InitSpec = "plain"
  MaxUid = 2
  MaxFailures = 1
  MaxEdits = 2
INVARIANTS TypeOK  QuietMeansCounted
 
CHECK_DEADLOCK FALSE
