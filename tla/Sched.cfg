SPECIFICATION Spec
CONSTANTS
  NoSchedule = NoSchedule
  Dates <- MCDates
  Delay <- MCDelay
  Schedules <- AllSchedules
  InitSchedule <- OftenUntil
  Handlers = {1, 2}
  MaxTime = 4
  MaxRuns = 2
  MaxFailures = 1
  MaxIgnored = 1
  MaxEdits = 1
INVARIANTS
  TypeOK PendingHasSchedule CountsOnlyRuns OneRunPerPlan NoLostSchedule

  
CHECK_DEADLOCK FALSE
