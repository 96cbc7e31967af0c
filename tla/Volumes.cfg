SPECIFICATION FairSpec
CONSTANTS
  Pipelines = {"p"}
  Runs = {"first", "second"}
  PipelineOf <- MCPipelineOf
  VolumeLists <- MCVolumeLists
  DefaultClass = "fast"
  MaxUid = 2
  MaxSize = 2
  MaxFailures = 1
  MaxEdits = 2
INVARIANTS TypeOK DependsAsAsked NoJobsWithoutClaims
PROPERTIES ResizeKept ClaimComesBack DescribesItsClaims
CHECK_DEADLOCK FALSE
