SPECIFICATION Spec
CONSTANTS
  MaxJobs = 4
  MaxIO = 2
  Runs = {"one", "two"}
  Names <- FewNames
  PathOverrides <- FewOverrides
  MountPrefixes <- FewPrefixes
INVARIANTS FoldIsHighest RunsAreIsolated MountsMatchVolumes
CHECK_DEADLOCK FALSE
